---------------------------- MODULE Spec2Model ----------------------------
(***************************************************************************)
(* Model of RI_SDN (src/enfin.py, lines 108-161): the mobility-anchor      *)
(* computation.  RI_SDN builds the node list from the stations, access     *)
(* points and switches of the network, builds the adjacency matrix from    *)
(* the per-node connectivity query, selects the set of most connected      *)
(* nodes (SMC) and resolves one anchor from it.                            *)
(*                                                                         *)
(* Node indices are 0-based as in the source; a numpy index array is a     *)
(* sequence of indices, so the element numpy calls a[k] is a[k+1] here.    *)
(***************************************************************************)
EXTENDS Integers, Sequences, FiniteSets

VARIABLES
    nodes,          \* RI_SDN: nodes = net.stations + net.aps + net.switches
    connectionsTo,  \* connectionsTo[i]: indices j whose node is "in" node_i.connectionsTo(nodes)
    pc,             \* position in the body of RI_SDN
    adj_matrix,     \* result of adjacency_matrix()
    smc,            \* result of most_connected_nodes(adj_matrix)
    anchor,         \* result of determine_anchor(smc, adj_matrix)
    err             \* the exception that ended RI_SDN, if any

vars == <<nodes, connectionsTo, pc, adj_matrix, smc, anchor, err>>

-----------------------------------------------------------------------------
(* Bounds of the model *)

\* largest node list of the specification Spec
MaxN == 4
\* largest node list of the specification SpecNet (every split into kinds)
MaxNetN == 3
\* how many answers of the connectivity query may deviate from the
\* undirected link set (one-directional entries and self entries)
MaxOneWay == 1

-----------------------------------------------------------------------------
(* The network object *)

NoNode == [kind |-> "none", id |-> 0]
NoError == [type |-> "none", raised_by |-> "none"]

\* the nodes create_nodes adds to the network that RI_SDN leaves out
Hosts == {[kind |-> "host", id |-> 1], [kind |-> "host", id |-> 2]}
Controllers == {[kind |-> "controller", id |-> 1]}

MkList(kind, n) == [k \in 1..n |-> [kind |-> kind, id |-> k]]

\* nodes = net.stations + net.aps + net.switches
NodeList(nSta, nAp, nSw) ==
    MkList("station", nSta) \o MkList("ap", nAp) \o MkList("switch", nSw)

Idx(n) == 0..(n - 1)

\* the undirected links between n nodes, each as <<i, j>> with i < j
LinkPairs(n) == {p \in Idx(n) \X Idx(n) : p[1] < p[2]}

\* The answers of the connectivity query: node j is reported for node i when
\* they are linked, except for the entries in flips, which are inverted.
Probe(n, links, flips) ==
    [i \in Idx(n) |->
        {j \in Idx(n) :
            ((<<i, j>> \in links \/ <<j, i>> \in links) /\ <<i, j>> \notin flips)
            \/ (~(<<i, j>> \in links \/ <<j, i>> \in links) /\ <<i, j>> \in flips)}]

-----------------------------------------------------------------------------
(* numpy helpers *)

RECURSIVE SumTo(_, _)
\* sum of row[0..k-1]
SumTo(row, k) == IF k = 0 THEN 0 ELSE SumTo(row, k - 1) + row[k - 1]

\* m.sum(axis=1): the vector of row sums
sum_axis1(m) == [i \in DOMAIN m |-> SumTo(m[i], Cardinality(DOMAIN m[i]))]

np_max(v) == CHOOSE x \in {v[i] : i \in DOMAIN v} : \A i \in DOMAIN v : v[i] <= x

np_min(v) == CHOOSE x \in {v[i] : i \in DOMAIN v} : \A i \in DOMAIN v : x <= v[i]

IsVal(v, x, i) == v[i] = x

\* np.where(v == x)[0] for a vector v indexed 0..n-1: ascending indices
np_where(v, x) ==
    LET n == Cardinality(DOMAIN v)
        RECURSIVE Collect(_)
        Collect(k) == IF k = 0 THEN <<>>
                      ELSE IF IsVal(v, x, k - 1)
                           THEN Append(Collect(k - 1), k - 1)
                           ELSE Collect(k - 1)
    IN Collect(n)

-----------------------------------------------------------------------------
(* The nested functions of RI_SDN *)

\* adjacency_matrix(): entry [i, j] is 1 when nodes[j] is in the query
\* result of nodes[i], else it stays 0
adjacency_matrix(nodeList, conn) ==
    [i \in Idx(Len(nodeList)) |->
        [j \in Idx(Len(nodeList)) |-> IF j \in conn[i] THEN 1 ELSE 0]]

\* mutant: only the first index of maximum row sum (argmax)
most_connected_nodes_first(adj) ==
    LET connections == sum_axis1(adj)
    IN <<np_where(connections, np_max(connections))[1]>>

\* most_connected_nodes(adj_matrix), for a matrix with at least one row
most_connected_nodes(adj) ==
    LET connections == sum_axis1(adj)
        max_connections == np_max(connections)
    IN np_where(connections, max_connections)

\* mutant: the scan reports the inner index j of the first disconnected pair
first_disconnected_inner(s, adj) ==
    LET RECURSIVE Scan(_, _)
        Scan(p, q) ==
            IF p > Len(s) THEN <<FALSE, 0>>
            ELSE IF q > Len(s) THEN Scan(p + 1, 1)
            ELSE IF s[p] # s[q] /\ adj[s[p]][s[q]] = 0 THEN <<TRUE, s[q]>>
            ELSE Scan(p, q + 1)
    IN Scan(1, 1)

\* the double loop of determine_anchor: <<TRUE, i>> for the first pair
\* (i, j) in scan order with i != j and adj_matrix[i, j] == 0, else <<FALSE, 0>>
first_disconnected(s, adj) ==
    LET RECURSIVE Scan(_, _)
        Scan(p, q) ==
            IF p > Len(s) THEN <<FALSE, 0>>
            ELSE IF q > Len(s) THEN Scan(p + 1, 1)
            ELSE IF s[p] # s[q] /\ adj[s[p]][s[q]] = 0 THEN <<TRUE, s[p]>>
            ELSE Scan(p, q + 1)
    IN Scan(1, 1)

\* mutant: the fallback selects the nodes of maximum row sum
global_fallback_max(adj) ==
    LET distances == sum_axis1(adj)
        sdc == np_where(distances, np_max(distances))
        smc_connections == [k \in Idx(Len(sdc)) |-> distances[sdc[k + 1]]]
        anchor_candidates == np_where(smc_connections, np_max(smc_connections))
    IN IF Len(sdc) = 1 THEN sdc[1] ELSE anchor_candidates[1]

\* mutant: the last stage maps the position back through sdc
global_fallback_sdc(adj) ==
    LET distances == sum_axis1(adj)
        sdc == np_where(distances, np_min(distances))
        smc_connections == [k \in Idx(Len(sdc)) |-> distances[sdc[k + 1]]]
        anchor_candidates == np_where(smc_connections, np_max(smc_connections))
    IN IF Len(sdc) = 1 THEN sdc[1] ELSE sdc[anchor_candidates[1] + 1]

\* mutant: the last stage indexes the node list with the number of candidates
global_fallback_len(adj) ==
    LET distances == sum_axis1(adj)
        sdc == np_where(distances, np_min(distances))
        smc_connections == [k \in Idx(Len(sdc)) |-> distances[sdc[k + 1]]]
        anchor_candidates == np_where(smc_connections, np_max(smc_connections))
    IN IF Len(sdc) = 1 THEN sdc[1] ELSE Len(anchor_candidates)

\* determine_anchor after the double loop: the index passed to nodes[...].
\* adj_matrix[sdc].sum(axis=1) is indexed by the position in sdc, and
\* anchor_candidates holds positions in that vector.
global_fallback(adj) ==
    LET distances == sum_axis1(adj)
        min_distance == np_min(distances)
        sdc == np_where(distances, min_distance)
        smc_connections ==
            [k \in Idx(Len(sdc)) |->
                SumTo(adj[sdc[k + 1]], Cardinality(DOMAIN adj[sdc[k + 1]]))]
        max_smc_connections == np_max(smc_connections)
        anchor_candidates == np_where(smc_connections, max_smc_connections)
    IN IF Len(sdc) = 1 THEN sdc[1] ELSE anchor_candidates[1]

\* mutant: the singleton rule is missing
determine_anchor_no_singleton(s, adj) ==
    IF first_disconnected(s, adj)[1] THEN first_disconnected(s, adj)[2]
    ELSE global_fallback(adj)

\* determine_anchor(smc, adj_matrix): the index i of the returned nodes[i]
determine_anchor(s, adj) ==
    IF Len(s) = 1 THEN s[1]
    ELSE IF first_disconnected(s, adj)[1] THEN first_disconnected(s, adj)[2]
    ELSE global_fallback(adj)

-----------------------------------------------------------------------------
(* The body of RI_SDN *)

Start(nodeList, conn) ==
    /\ nodes = nodeList
    /\ connectionsTo = conn
    /\ pc = "start"
    /\ adj_matrix = <<>>
    /\ smc = <<>>
    /\ anchor = NoNode
    /\ err = NoError

\* the sets of at most MaxOneWay inverted entries
FlipSets(n) ==
    {{f[k] : k \in 1..MaxOneWay} \ {<<n, n>>} :
        f \in [1..MaxOneWay -> (Idx(n) \X Idx(n)) \cup {<<n, n>>}]}

\* every node list of up to MaxN nodes, one split into kinds per length
\* (no function of RI_SDN reads the kind of a node)
Init ==
    \E n \in 0..MaxN :
        \E links \in SUBSET LinkPairs(n), flips \in FlipSets(n) :
            Start(NodeList((n + 2) \div 3, (n + 1) \div 3, n \div 3),
                  Probe(n, links, flips))

\* every node list of up to MaxNetN nodes, in every split into kinds
InitNet ==
    \E nSta \in 0..MaxNetN, nAp \in 0..MaxNetN, nSw \in 0..MaxNetN :
        /\ nSta + nAp + nSw <= MaxNetN
        /\ \E links \in SUBSET LinkPairs(nSta + nAp + nSw),
              flips \in FlipSets(nSta + nAp + nSw) :
                Start(NodeList(nSta, nAp, nSw),
                      Probe(nSta + nAp + nSw, links, flips))

\* line 156: adj_matrix = adjacency_matrix()
RI_SDN_adjacency_matrix ==
    /\ pc = "start"
    /\ adj_matrix' = adjacency_matrix(nodes, connectionsTo)
    /\ pc' = "matrix"
    /\ UNCHANGED <<nodes, connectionsTo, smc, anchor, err>>

\* line 157: smc = most_connected_nodes(adj_matrix); np.max of an empty
\* vector raises ValueError
RI_SDN_most_connected_nodes ==
    /\ pc = "matrix"
    /\ IF DOMAIN adj_matrix = {}
       THEN /\ err' = [type |-> "ValueError", raised_by |-> "most_connected_nodes"]
            /\ pc' = "error"
            /\ UNCHANGED smc
       ELSE /\ smc' = most_connected_nodes(adj_matrix)
            /\ pc' = "smc"
            /\ UNCHANGED err
    /\ UNCHANGED <<nodes, connectionsTo, adj_matrix, anchor>>

\* lines 158-159: anchor = determine_anchor(smc, adj_matrix), reported;
\* nodes[i] raises IndexError for an index past the end of the list
RI_SDN_determine_anchor ==
    /\ pc = "smc"
    /\ LET i == determine_anchor(smc, adj_matrix)
       IN IF i \in Idx(Len(nodes))
          THEN /\ anchor' = nodes[i + 1]
               /\ pc' = "done"
               /\ UNCHANGED err
          ELSE /\ err' = [type |-> "IndexError", raised_by |-> "determine_anchor"]
               /\ pc' = "error"
               /\ UNCHANGED anchor
    /\ UNCHANGED <<nodes, connectionsTo, adj_matrix, smc>>

Next ==
    \/ RI_SDN_adjacency_matrix
    \/ RI_SDN_most_connected_nodes
    \/ RI_SDN_determine_anchor

Spec == Init /\ [][Next]_vars

SpecNet == InitNet /\ [][Next]_vars

-----------------------------------------------------------------------------
(* Vocabulary of the properties, stated on the matrix itself *)

N == Len(nodes)

\* degree of node i: the number of entries 1 in row i
Deg(i) == Cardinality({j \in Idx(N) : adj_matrix[i][j] = 1})

MaxDegSet == {i \in Idx(N) : \A k \in Idx(N) : Deg(k) <= Deg(i)}

MinDegSet == {i \in Idx(N) : \A k \in Idx(N) : Deg(i) <= Deg(k)}

SmcSet == {smc[p] : p \in 1..Len(smc)}

\* members of SMC that are not adjacent to some other member of SMC
Disconnected == {i \in SmcSet : \E j \in SmcSet : j # i /\ adj_matrix[i][j] = 0}

SmcIsClique == Disconnected = {}

Lowest(S) == CHOOSE i \in S : \A k \in S : i <= k

AllDegreesDistinct == \A i, k \in Idx(N) : i # k => Deg(i) # Deg(k)

\* determine_anchor has returned after reaching its last stage
LastStage ==
    pc = "done" /\ Len(smc) >= 2 /\ SmcIsClique /\ Cardinality(MinDegSet) > 1

\* the members of SDC attaining the maximum secondary score
BestOfSDC == {k \in MinDegSet : \A m \in MinDegSet : Deg(m) <= Deg(k)}

-----------------------------------------------------------------------------
(* Properties *)

\* C1: when exactly one node has the maximum row sum, the anchor returned
\* for the result of most_connected_nodes is that node.
C1_SingletonAnchor ==
    (pc \in {"done", "error"} /\ N >= 1 /\ Cardinality(MaxDegSet) = 1)
        => (pc = "done" /\ \A i \in MaxDegSet : anchor = nodes[i + 1])

C1_Witness ==
    pc = "done" /\ N = 4 /\ MaxDegSet = {2} /\ anchor = nodes[3]
    /\ Deg(0) = 1 /\ Deg(3) = 0

\* C2: when SMC has at least two members and is not a clique, the anchor is
\* the lowest-index member of SMC that is not adjacent to some other member.
C2_FirstDisconnected ==
    (pc \in {"done", "error"} /\ Len(smc) >= 2 /\ ~SmcIsClique)
        => (pc = "done" /\ anchor = nodes[Lowest(Disconnected) + 1])

C2_Witness ==
    pc = "done" /\ Len(smc) >= 3 /\ ~SmcIsClique
    /\ smc[1] \notin Disconnected /\ anchor = nodes[smc[2] + 1]

\* C3: in the last stage the anchor is a member of SDC, the lowest-index
\* one among the members of SDC with the maximum secondary score.
C3_SecondaryInSDC ==
    LastStage => anchor = nodes[Lowest(BestOfSDC) + 1]

C5_EmptyFailsInBuilder ==
    N = 0 =>
        /\ pc \in {"start", "error"}
        /\ pc = "error" =>
              err = [type |-> "InvalidTopology", raised_by |-> "adjacency_matrix"]

\* C6: the matrix returned by adjacency_matrix is symmetric and has a zero
\* diagonal, whatever the connectivity query answers.
C6_SymmetricZeroDiagonal ==
    pc # "start" =>
        \A i, j \in Idx(N) :
            adj_matrix[i][j] = adj_matrix[j][i] /\ adj_matrix[i][i] = 0

\* C7: for N >= 1 most_connected_nodes returns a non-empty list of exactly
\* the indices of maximum row sum, in ascending order.
C7_MostConnected ==
    (pc \in {"smc", "done"} \/ (pc = "error" /\ N >= 1)) =>
        /\ pc # "error"
        /\ Len(smc) >= 1
        /\ SmcSet = MaxDegSet
        /\ \A p \in 1..(Len(smc) - 1) : smc[p] < smc[p + 1]

C7_Witness ==
    pc = "smc" /\ N = 4 /\ (\A i \in Idx(N) : Deg(i) = 0) /\ smc = <<0, 1, 2, 3>>

\* C8: when SMC has at least two members and is a clique and exactly one
\* node has the minimum row sum, the anchor is that node, which is not in SMC.
C8_UniqueMinimum ==
    (pc \in {"done", "error"} /\ Len(smc) >= 2 /\ SmcIsClique
        /\ Cardinality(MinDegSet) = 1)
        => (pc = "done" /\ \A i \in MinDegSet : anchor = nodes[i + 1] /\ i \notin SmcSet)

C8_Witness ==
    pc = "done" /\ Len(smc) >= 2 /\ SmcIsClique /\ MinDegSet = {1}
    /\ anchor = nodes[2]

\* C9: for N >= 1 the pipeline runs to its end without error and yields one
\* anchor, an element of the node list (a station, access point or switch),
\* never a host or a controller.  Until the anchor is reported, RI_SDN is at
\* one of the three calls, each of which is guarded by pc alone and so can
\* be taken.
C9_OneAnchorFromNodes ==
    N >= 1 =>
        /\ err = NoError /\ pc # "error"
        /\ pc # "done" => (anchor = NoNode /\ pc \in {"start", "matrix", "smc"})
        /\ pc = "done" =>
              /\ \E i \in Idx(N) : anchor = nodes[i + 1]
              /\ anchor.kind \in {"station", "ap", "switch"}
              /\ anchor \notin Hosts \cup Controllers

C9_Witness ==
    pc = "done" /\ N = 3 /\ LastStage /\ anchor.kind = "ap"
    /\ nodes[3].kind = "switch"

\* C10: in the last stage every member of SDC has the same secondary score
\* and the anchor is the node at position 0 of the node list.
C10_LastStageIsNodeZero ==
    LastStage =>
        /\ \A k, m \in MinDegSet :
              SumTo(adj_matrix[k], N) = SumTo(adj_matrix[m], N)
        /\ anchor = nodes[1]

C10_Witness ==
    LastStage /\ 0 \notin MinDegSet /\ anchor = nodes[1]

=============================================================================
